---- MODULE Spec2Model ----
(***************************************************************************)
(* A model of the RAG-QA repository: the incremental ingestion pipeline    *)
(* of ingest.py (change ledger, document scan, index update, orchestrator) *)
(* and the interactive query session of main.py.                           *)
(*                                                                         *)
(* The file system, the document loader, the embedding constructor, the    *)
(* vector store and the retrieval chain are collaborators: their outcomes  *)
(* (success, failure, what a file holds) are chosen nondeterministically.  *)
(* Every system call of the scan is one step, so that writes to the source *)
(* tree can fall between the scan's decision, its load and its timestamp   *)
(* read.                                                                   *)
(***************************************************************************)
EXTENDS Integers, Sequences, FiniteSets, TLC

\* ------------------------------------------------------------------ bounds

\* The number of changes made from outside (files written or deleted, the
\* ledger file overwritten). A file's modification timestamp is the number of
\* times it was written.
MaxEnv == 3
\* The number of ingestion runs started.
MaxRuns == 2
\* The number of lines the query session reads.
MaxReads == 3
\* The largest number of chunks the retriever returns for one question.
MaxRetrieved == 2

\* ------------------------------------------------------------ source tree

\* File names are sequences of characters; the tree is one directory.
FileA == <<"a", ".", "m", "d">>
FileB == <<"b", ".", "m", "d">>
FileC == <<"c", ".", "t", "x", "t">>

\* The order in which os.walk lists the directory.
WalkOrder == <<FileA, FileB, FileC>>

Paths == {WalkOrder[i] : i \in 1..Len(WalkOrder)}

\* filename.endswith(suffix)
EndsWith(name, suffix) ==
    /\ Len(name) >= Len(suffix)
    /\ SubSeq(name, Len(name) - Len(suffix) + 1, Len(name)) = suffix

MdSuffix == <<".", "m", "d">>

\* What a file holds, as far as the pipeline can tell: how many Documents the
\* loader makes of it and how many chunks the splitter makes of each. Three
\* kinds of content: one the loader makes nothing of, one that makes a
\* Document with no chunk, one that makes a Document of one chunk.
Contents ==
    {[docs |-> 0, chunks |-> 0], [docs |-> 1, chunks |-> 0], [docs |-> 1, chunks |-> 1]}

\* Only markdown is ever handed to the loader: what another file holds is one
\* value.
ContentsOf(p) ==
    IF EndsWith(p, MdSuffix) THEN Contents ELSE {[docs |-> 0, chunks |-> 0]}

NoFile == [exists |-> FALSE, mtime |-> 0, content |-> [docs |-> 0, chunks |-> 0]]

\* ---------------------------------------------------------------- mappings

\* A Python dict from paths to timestamps is a function on a subset of Paths.
EmptyMap == [p \in {} |-> 0]

\* dict.update that changes the keys it finds and adds none.
DictUpdate_known(m, u) ==
    [p \in DOMAIN m |-> IF p \in DOMAIN u THEN u[p] ELSE m[p]]

\* dict.update taken for an assignment: the updates replace the mapping.
DictUpdate_replace(m, u) == u

\* dict.update
DictUpdate(m, u) ==
    [p \in (DOMAIN m) \cup (DOMAIN u) |-> IF p \in DOMAIN u THEN u[p] ELSE m[p]]

\* d[k] = v
DictSet(m, k, v) == [p \in (DOMAIN m) \cup {k} |-> IF p = k THEN v ELSE m[p]]

\* A JSON value as json.load returns it: a dict ("map"), or a value that is
\* well-formed JSON and no dict: the empty list ("list") or a number ("scalar").
Dict(m) == [kind |-> "map", map |-> m]
NotDictKinds == {"list", "scalar"}

\* The ledger file: absent, not JSON at all (empty, truncated: "badjson"), or
\* a JSON value.
LedgerKinds == {"absent", "badjson", "map"} \cup NotDictKinds
LedgerFileOf(k, m) == [kind |-> k, map |-> m]

VARIABLES
    fs,               \* the source tree: path -> [exists, mtime, content]
    ledgerFile,       \* PROCESSED_FILES_JSON on disk
    store,            \* the vector store at PERSIST_DIRECTORY: [exists, count]
    pc,               \* where ingest.main is: "idle", "scan", "load", "stamp"
    processed_files,  \* main's processed_files
    todo,             \* the files os.walk listed and the loop has not reached
    new_docs,         \* load_new_documents' new_docs
    files_to_update,  \* load_new_documents' files_to_update_log
    runs,             \* ingestion runs started
    envOps,           \* changes made from outside
    quiet,            \* run starts since the last outside change (0..2)
    selected,         \* files should_process_file accepted in this run
    failed,           \* files whose loader raised in this run
    gone,             \* files whose timestamp should_process_file could not read in this run
    ingested,         \* paths indexed by a successful add since the ledger's reset
    last,             \* how the last finished run went; during a run, how the
                      \* run before went if nothing outside changed since it began
    qpc,              \* the query session: "loading", "ready", "answering", "terminated"
    typed,            \* the line input() returned last
    query,            \* main.main's query
    reads,            \* calls of input()
    invoked,          \* calls of qa_chain.invoke
    answered,         \* answers printed
    errors,           \* errors logged by the query loop's except clause
    printed,          \* the lines printed under "--- Sources ---" for the last answer
    qend              \* why the session ended

ivars == <<fs, ledgerFile, store, pc, processed_files, todo, new_docs,
           files_to_update, runs, envOps, quiet, selected, failed, gone, ingested,
           last>>

qvars == <<qpc, typed, query, reads, invoked, answered, errors, printed, qend>>

vars == <<ivars, qvars>>

\* ------------------------------------------------------------ change ledger

\* load_processed_files: {} when the file is absent or json.load raises
\* JSONDecodeError; otherwise whatever json.load returned.
load_processed_files(file) ==
    IF file.kind \in {"absent", "badjson"} THEN Dict(EmptyMap)
    ELSE IF file.kind = "map" THEN Dict(file.map)
    ELSE [kind |-> file.kind, map |-> EmptyMap]

\* save_processed_files with the error raised when the file is closed, after
\* the new ledger was written.
save_processed_files_written(file, pf) ==
    { [file |-> LedgerFileOf("map", pf.map), result |-> "ok"],
      [file |-> LedgerFileOf("map", pf.map), result |-> "failed"] }

\* save_processed_files: the outcomes of open(filepath, 'w') and json.dump.
\* open can fail (the file is left as it was); json.dump can fail after open
\* has truncated the file (what is left is no JSON). Neither is raised.
save_processed_files(file, pf) ==
    { [file |-> LedgerFileOf("map", pf.map), result |-> "ok"],
      [file |-> file, result |-> "failed"],
      [file |-> LedgerFileOf("badjson", EmptyMap), result |-> "failed"] }

\* should_process_file comparing with <= in place of <.
should_process_file_le(filepath, pf, tree) ==
    IF ~tree[filepath].exists THEN "no"
    ELSE IF pf.kind = "scalar" THEN "raise"
    ELSE IF pf.kind = "list" THEN "yes"
    ELSE IF filepath \notin DOMAIN pf.map THEN "yes"
    ELSE IF pf.map[filepath] <= tree[filepath].mtime THEN "yes"
    ELSE "no"

\* should_process_file taking any difference of the timestamps for a change
\* and leaving out the test for a path the ledger does not hold.
should_process_file_known(filepath, pf, tree) ==
    IF ~tree[filepath].exists THEN "no"
    ELSE IF pf.kind = "scalar" THEN "raise"
    ELSE IF pf.kind = "list" THEN "yes"
    ELSE IF filepath \notin DOMAIN pf.map THEN "no"
    ELSE IF pf.map[filepath] < tree[filepath].mtime THEN "yes"
    ELSE "no"

\* should_process_file asking the ledger before it reads the timestamp: a
\* file that is gone and that the ledger does not hold is accepted.
should_process_file_ledger_first(filepath, pf, tree) ==
    IF pf.kind = "scalar" THEN "raise"
    ELSE IF pf.kind = "list" THEN "yes"
    ELSE IF filepath \notin DOMAIN pf.map THEN "yes"
    ELSE IF ~tree[filepath].exists THEN "no"
    ELSE IF pf.map[filepath] < tree[filepath].mtime THEN "yes"
    ELSE "no"

\* should_process_file: "yes", "no", or "raise" when the membership test is
\* applied to a value that supports none (TypeError, not caught).
should_process_file(filepath, pf, tree) ==
    IF ~tree[filepath].exists THEN "no"
    ELSE IF pf.kind = "scalar" THEN "raise"
    ELSE IF pf.kind = "list" THEN "yes"
    ELSE IF filepath \notin DOMAIN pf.map THEN "yes"
    ELSE IF pf.map[filepath] < tree[filepath].mtime THEN "yes"
    ELSE "no"

\* ------------------------------------------------------------------ loader

\* UnstructuredMarkdownLoader(filepath).load(): the Documents of the file as
\* it is now, each carrying its source, the version (timestamp) of the content
\* it was read from, and the number of chunks it will split into.
LoaderLoad(filepath, tree) ==
    [i \in 1..tree[filepath].content.docs |->
        [source |-> filepath, ver |-> tree[filepath].mtime,
         chunks |-> tree[filepath].content.chunks]]

\* --------------------------------------------------------------- splitter

RECURSIVE split_documents(_)
split_documents(documents) ==
    IF documents = <<>> THEN <<>>
    ELSE [i \in 1..Head(documents).chunks |->
             [source |-> Head(documents).source, ver |-> Head(documents).ver]]
         \o split_documents(Tail(documents))

\* ------------------------------------------------------------ index updater

\* update_vector_store without the test for an empty list.
update_vector_store_unguarded(texts, st) ==
    {[store |-> st, status |-> "failed", added |-> 0]}
    \cup
    {[store |-> [exists |-> TRUE, count |-> st.count + k],
      status |-> "failed", added |-> k] : k \in 0..(Len(texts) - 1)}
    \cup
    {[store |-> [exists |-> TRUE, count |-> st.count + Len(texts)],
      status |-> IF texts = <<>> THEN "empty" ELSE "ok", added |-> Len(texts)]}

\* update_vector_store: every outcome of one call. Nothing is returned or
\* raised, whatever happened: status is what the log says.
update_vector_store(texts, st) ==
    IF texts = <<>>
    THEN {[store |-> st, status |-> "empty", added |-> 0]}
    ELSE \* Chroma(...) raised before making the directory
         {[store |-> st, status |-> "failed", added |-> 0]}
         \cup \* Chroma(...) or add_documents raised with k chunks added
         {[store |-> [exists |-> TRUE, count |-> st.count + k],
           status |-> "failed", added |-> k] : k \in 0..(Len(texts) - 1)}
         \cup
         {[store |-> [exists |-> TRUE, count |-> st.count + Len(texts)],
           status |-> "ok", added |-> Len(texts)]}

Sources(docs) == {docs[i].source : i \in 1..Len(docs)}

\* ------------------------------------------------------------------- state

NoRun == [outcome |-> "none", index |-> "none", save |-> "none",
          failed |-> {}, pending |-> {}]

NoStore == [exists |-> FALSE, count |-> 0]

IngestInit ==
    /\ fs = [p \in Paths |-> NoFile]
    /\ ledgerFile = LedgerFileOf("absent", EmptyMap)
    /\ pc = "idle"
    /\ processed_files = Dict(EmptyMap)
    /\ todo = <<>>
    /\ new_docs = <<>>
    /\ files_to_update = EmptyMap
    /\ runs = 0
    /\ envOps = 0
    /\ quiet = 0
    /\ selected = {}
    /\ failed = {}
    /\ gone = {}
    /\ ingested = {}
    /\ last = NoRun

QueryInit ==
    /\ qpc = "loading"
    /\ typed = <<>>
    /\ query = <<>>
    /\ reads = 0
    /\ invoked = 0
    /\ answered = 0
    /\ errors = 0
    /\ printed = <<>>
    /\ qend = "none"

\* Before the first ingestion run: no tree, no ledger, no store.
Init == IngestInit /\ store = NoStore /\ QueryInit

\* ------------------------------------------------------ outside the program

\* Changes are counted, and followed while a run is still to read them.
Observed == envOps < MaxEnv /\ (pc # "idle" \/ runs < MaxRuns)

\* A file is created or rewritten: new content, a newer timestamp.
EnvWrite(p, c) ==
    /\ Observed
    /\ fs' = [fs EXCEPT ![p] = [exists |-> TRUE, mtime |-> fs[p].mtime + 1, content |-> c]]
    /\ quiet' = 0
    /\ envOps' = envOps + 1
    /\ UNCHANGED gone
    /\ UNCHANGED qvars
    /\ UNCHANGED <<ledgerFile, store, pc, processed_files, todo, new_docs,
                   files_to_update, runs, selected, failed, ingested, last>>

\* A file is deleted.
EnvDelete(p) ==
    /\ Observed
    /\ fs[p].exists
    /\ fs' = [fs EXCEPT ![p].exists = FALSE]
    /\ quiet' = 0
    /\ envOps' = envOps + 1
    /\ UNCHANGED gone
    /\ UNCHANGED qvars
    /\ UNCHANGED <<ledgerFile, store, pc, processed_files, todo, new_docs,
                   files_to_update, runs, selected, failed, ingested, last>>

\* The ledger file is removed or overwritten with something that is no ledger:
\* the ledger is reset.
EnvLedger(k) ==
    /\ Observed
    /\ pc = "idle"
    /\ ledgerFile.kind # k
    /\ ledgerFile' = LedgerFileOf(k, EmptyMap)
    /\ ingested' = {}
    /\ quiet' = 0
    /\ envOps' = envOps + 1
    /\ UNCHANGED gone
    /\ UNCHANGED qvars
    /\ UNCHANGED <<fs, store, pc, processed_files, todo, new_docs,
                   files_to_update, runs, selected, failed, last>>

\* ------------------------------------------------------------- ingest.main

\* The process's memory when it is not running.
Exit(run) ==
    /\ pc' = "idle"
    /\ processed_files' = Dict(EmptyMap)
    /\ todo' = <<>>
    /\ new_docs' = <<>>
    /\ files_to_update' = EmptyMap
    /\ selected' = {}
    /\ failed' = {}
    /\ gone' = {}
    /\ last' = run

\* main, lines 117-120 up to the listing of the directory.
StartRun ==
    /\ pc = "idle"
    /\ runs < MaxRuns
    /\ runs' = runs + 1
    /\ quiet' = IF quiet < 2 THEN quiet + 1 ELSE 2
    /\ processed_files' = load_processed_files(ledgerFile)
    /\ todo' = SelectSeq(WalkOrder, LAMBDA p : fs[p].exists)
    /\ new_docs' = <<>>
    /\ files_to_update' = EmptyMap
    /\ selected' = {}
    /\ failed' = {}
    /\ gone' = {}
    /\ pc' = "scan"
    /\ last' = IF quiet >= 1 THEN [last EXCEPT !.index = "none"] ELSE NoRun
    /\ UNCHANGED qvars
    /\ UNCHANGED <<fs, ledgerFile, store, envOps, ingested>>

\* load_new_documents, lines 70-73: the next listed file is filtered and
\* should_process_file is asked.
ScanSkip ==
    /\ pc = "scan"
    /\ todo # <<>>
    /\ \/ ~EndsWith(Head(todo), MdSuffix)
       \/ should_process_file(Head(todo), processed_files, fs) = "no"
    /\ gone' = IF EndsWith(Head(todo), MdSuffix) /\ ~fs[Head(todo)].exists
                THEN gone \cup {Head(todo)}
                ELSE gone
    /\ todo' = Tail(todo)
    /\ UNCHANGED qvars
    /\ UNCHANGED <<fs, ledgerFile, store, pc, processed_files, new_docs,
                   files_to_update, runs, envOps, quiet, selected, failed, ingested, last>>

ScanSelect ==
    /\ pc = "scan"
    /\ todo # <<>>
    /\ EndsWith(Head(todo), MdSuffix)
    /\ should_process_file(Head(todo), processed_files, fs) = "yes"
    /\ selected' = selected \cup {Head(todo)}
    /\ pc' = "load"
    /\ UNCHANGED gone
    /\ UNCHANGED qvars
    /\ UNCHANGED <<fs, ledgerFile, store, processed_files, todo, new_docs,
                   files_to_update, runs, envOps, quiet, failed, ingested, last>>

\* should_process_file raised: nothing catches it, the run dies.
ScanRaise ==
    /\ pc = "scan"
    /\ todo # <<>>
    /\ EndsWith(Head(todo), MdSuffix)
    /\ should_process_file(Head(todo), processed_files, fs) = "raise"
    /\ Exit([NoRun EXCEPT !.outcome = "crash_ledger"])
    /\ UNCHANGED qvars
    /\ UNCHANGED <<fs, ledgerFile, store, runs, envOps, quiet, ingested>>

\* lines 76-77: the loader returns the file's Documents.
ScanLoadOk ==
    /\ pc = "load"
    /\ fs[Head(todo)].exists
    /\ new_docs' = new_docs \o LoaderLoad(Head(todo), fs)
    /\ pc' = "stamp"
    /\ UNCHANGED gone
    /\ UNCHANGED qvars
    /\ UNCHANGED <<fs, ledgerFile, store, processed_files, todo,
                   files_to_update, runs, envOps, quiet, selected, failed, ingested, last>>

\* ScanLoadFail with the timestamp recorded before the loader is called.
ScanLoadFail_recorded ==
    /\ pc = "load"
    /\ failed' = failed \cup {Head(todo)}
    /\ files_to_update' = DictSet(files_to_update, Head(todo), fs[Head(todo)].mtime)
    /\ todo' = Tail(todo)
    /\ pc' = "scan"
    /\ UNCHANGED gone
    /\ UNCHANGED qvars
    /\ UNCHANGED <<fs, ledgerFile, store, processed_files, new_docs,
                   runs, envOps, quiet, selected, ingested, last>>

\* lines 76-77, 79-80: the loader raises (always when the file is gone); the
\* except clause logs and the loop goes on.
ScanLoadFail ==
    /\ pc = "load"
    /\ failed' = failed \cup {Head(todo)}
    /\ todo' = Tail(todo)
    /\ pc' = "scan"
    /\ UNCHANGED gone
    /\ UNCHANGED qvars
    /\ UNCHANGED <<fs, ledgerFile, store, processed_files, new_docs,
                   files_to_update, runs, envOps, quiet, selected, ingested, last>>

\* ScanStamp writing the timestamp into the ledger it was given instead of
\* the mapping it returns.
ScanStamp_direct ==
    /\ pc = "stamp"
    /\ processed_files' =
          IF fs[Head(todo)].exists /\ processed_files.kind = "map"
          THEN Dict(DictSet(processed_files.map, Head(todo), fs[Head(todo)].mtime))
          ELSE processed_files
    /\ todo' = Tail(todo)
    /\ pc' = "scan"
    /\ UNCHANGED gone
    /\ UNCHANGED qvars
    /\ UNCHANGED <<fs, ledgerFile, store, files_to_update, new_docs,
                   runs, envOps, quiet, selected, failed, ingested, last>>

\* line 78: the timestamp is read again and recorded; when the file is gone
\* os.path.getmtime raises and the same except clause takes it.
ScanStamp ==
    /\ pc = "stamp"
    /\ files_to_update' =
          IF fs[Head(todo)].exists
          THEN DictSet(files_to_update, Head(todo), fs[Head(todo)].mtime)
          ELSE files_to_update
    /\ todo' = Tail(todo)
    /\ pc' = "scan"
    /\ UNCHANGED gone
    /\ UNCHANGED qvars
    /\ UNCHANGED <<fs, ledgerFile, store, processed_files, new_docs,
                   runs, envOps, quiet, selected, failed, ingested, last>>

ScanDone == pc = "scan" /\ todo = <<>>

\* The files whose load completed in this run: all that they hold is in
\* new_docs.
Loaded == Sources(new_docs) \cup DOMAIN files_to_update

\* lines 122-124: nothing was loaded.
FinishNoDocs ==
    /\ ScanDone
    /\ new_docs = <<>>
    /\ Exit([NoRun EXCEPT !.outcome = "noop", !.failed = failed,
                          !.pending = DOMAIN files_to_update])
    /\ UNCHANGED qvars
    /\ UNCHANGED <<fs, ledgerFile, store, runs, envOps, quiet, ingested>>

\* FinishEmbedFail with the embedding model built after the store is opened.
FinishEmbedFail_late ==
    /\ ScanDone
    /\ new_docs # <<>>
    /\ store' = [store EXCEPT !.exists = TRUE]
    /\ Exit([NoRun EXCEPT !.outcome = "crash_embed", !.failed = failed,
                          !.pending = DOMAIN files_to_update])
    /\ UNCHANGED qvars
    /\ UNCHANGED <<fs, ledgerFile, runs, envOps, quiet, ingested>>

\* line 130: HuggingFaceEmbeddings(...) raises; nothing catches it.
FinishEmbedFail ==
    /\ ScanDone
    /\ new_docs # <<>>
    /\ Exit([NoRun EXCEPT !.outcome = "crash_embed", !.failed = failed,
                          !.pending = DOMAIN files_to_update])
    /\ UNCHANGED qvars
    /\ UNCHANGED <<fs, ledgerFile, store, runs, envOps, quiet, ingested>>

\* lines 127-139 with a ledger that is a dict.
FinishCommit ==
    /\ ScanDone
    /\ new_docs # <<>>
    /\ processed_files.kind = "map"
    /\ \E u \in update_vector_store(split_documents(new_docs), store) :
       \E s \in save_processed_files(ledgerFile,
                    Dict(DictUpdate(processed_files.map, files_to_update))) :
          /\ store' = u.store
          /\ ledgerFile' = s.file
          /\ ingested' = IF u.status # "failed"
                         THEN ingested \cup Loaded
                         ELSE ingested
          /\ Exit([outcome |-> "done", index |-> u.status, save |-> s.result,
                   failed |-> failed,
                   pending |-> DOMAIN files_to_update])
    /\ UNCHANGED qvars
    /\ UNCHANGED <<fs, runs, envOps, quiet>>

\* lines 127-136 with a ledger that has no update method: AttributeError after
\* the store was updated.
FinishMergeRaise ==
    /\ ScanDone
    /\ new_docs # <<>>
    /\ processed_files.kind # "map"
    /\ \E u \in update_vector_store(split_documents(new_docs), store) :
          /\ store' = u.store
          /\ ingested' = IF u.status # "failed"
                         THEN ingested \cup Loaded
                         ELSE ingested
          /\ Exit([outcome |-> "crash_merge", index |-> u.status, save |-> "none",
                   failed |-> failed,
                   pending |-> DOMAIN files_to_update])
    /\ UNCHANGED qvars
    /\ UNCHANGED <<fs, ledgerFile, runs, envOps, quiet>>

\* The ingestion pipeline and the world around it.
Next ==
    \/ \E p \in Paths : \E c \in ContentsOf(p) : EnvWrite(p, c)
    \/ \E p \in Paths : EnvDelete(p)
    \/ \E k \in LedgerKinds \ {"map", "absent"} : EnvLedger(k)
    \/ StartRun
    \/ ScanSkip
    \/ ScanSelect
    \/ ScanRaise
    \/ ScanLoadOk
    \/ ScanLoadFail
    \/ ScanStamp
    \/ FinishNoDocs
    \/ FinishEmbedFail
    \/ FinishCommit
    \/ FinishMergeRaise

Spec == Init /\ [][Next]_vars

\* ------------------------------------------------------------ main.main

\* Lines typed at the prompt, as sequences of characters.
Inputs ==
    { <<"e", "x", "i", "t">>,
      <<" ", "E", "x", "i", "t", " ">>,
      <<"Q", "U", "I", "T">>,
      <<>>,
      <<" ", "\t">>,
      <<"h", "i">>,
      <<" ", "e", "x", "i", "t", "?">> }

\* What input() leaves when it raises instead of returning a line.
NoLine == <<"EOF">>

Whitespace == {" ", "\t", "\n"}

RECURSIVE LStrip(_)
LStrip(str) ==
    IF str # <<>> /\ Head(str) \in Whitespace THEN LStrip(Tail(str)) ELSE str

RECURSIVE RStrip(_)
RStrip(str) ==
    IF str # <<>> /\ str[Len(str)] \in Whitespace
    THEN RStrip(SubSeq(str, 1, Len(str) - 1))
    ELSE str

\* str.strip() left out.
Strip_none(str) == str

\* str.strip()
Strip(str) == RStrip(LStrip(str))

UpperCase == <<"E", "I", "Q", "T", "U", "X">>
LowerCase == <<"e", "i", "q", "t", "u", "x">>

\* str.lower() left out: the comparison is case-sensitive.
Lower_none(str) == str

\* str.lower(), on the letters the inputs use
Lower(str) ==
    [i \in 1..Len(str) |->
        IF \E k \in 1..Len(UpperCase) : UpperCase[k] = str[i]
        THEN LowerCase[CHOOSE k \in 1..Len(UpperCase) : UpperCase[k] = str[i]]
        ELSE str[i]]

ExitWords == {<<"e", "x", "i", "t">>, <<"q", "u", "i", "t">>}

\* The metadata of a retrieved chunk: a dict with a source, or without one.
Metadatas == {[source |-> p] : p \in {FileA, FileB}} \cup {EmptyMap}

UnknownSource ==
    <<"U", "n", "k", "n", "o", "w", "n", " ", "s", "o", "u", "r", "c", "e">>

\* dict.get(key, default) for the key 'source'
GetSource(meta, default) ==
    IF "source" \in DOMAIN meta THEN meta["source"] ELSE default

\* lines 116-118: one line per retrieved document
PrintSources(docs) ==
    [i \in 1..Len(docs) |-> GetSource(docs[i], UnknownSource)]

\* result["source_documents"], as the retriever may return it
Retrievable == UNION {[1..n -> Metadatas] : n \in 0..MaxRetrieved}

QEnd(why) ==
    /\ qpc' = "terminated"
    /\ qend' = why

\* lines 20-24, 52-93: the steps of Loading in the order they run; each can
\* fail, and the directory check fails exactly when the store was never made.
LoadFailures == {"config", "embeddings", "nodir", "store", "llm", "chain"}

\* QLoadFail with the return left out: the failure is logged and main goes on.
QLoadFail_continues(why) ==
    /\ qpc = "loading"
    /\ why = "nodir" => ~store.exists
    /\ why \in {"store", "llm", "chain"} => store.exists
    /\ qpc' = "ready"
    /\ qend' = why
    /\ UNCHANGED <<typed, query, reads, invoked, answered, errors, printed>>
    /\ UNCHANGED ivars

QLoadFail(why) ==
    /\ qpc = "loading"
    /\ why = "nodir" => ~store.exists
    /\ why \in {"store", "llm", "chain"} => store.exists
    /\ QEnd(why)
    /\ UNCHANGED <<typed, query, reads, invoked, answered, errors, printed>>
    /\ UNCHANGED ivars

QLoadOk ==
    /\ qpc = "loading"
    /\ store.exists
    /\ qpc' = "ready"
    /\ UNCHANGED <<typed, query, reads, invoked, answered, errors, printed, qend>>
    /\ UNCHANGED ivars

\* lines 101-104: exit or quit
QReadExit(line) ==
    /\ qpc = "ready"
    /\ reads < MaxReads
    /\ Lower(Strip(line)) \in ExitWords
    /\ reads' = reads + 1
    /\ typed' = line
    /\ query' = Strip(line)
    /\ QEnd("exit")
    /\ UNCHANGED <<invoked, answered, errors, printed>>
    /\ UNCHANGED ivars

\* lines 101-106: nothing typed
QReadBlank(line) ==
    /\ qpc = "ready"
    /\ reads < MaxReads
    /\ Lower(Strip(line)) \notin ExitWords
    /\ Strip(line) = <<>>
    /\ reads' = reads + 1
    /\ typed' = line
    /\ query' = Strip(line)
    /\ UNCHANGED <<qpc, invoked, answered, errors, printed, qend>>
    /\ UNCHANGED ivars

\* lines 101-109: a question
QReadQuestion(line) ==
    /\ qpc = "ready"
    /\ reads < MaxReads
    /\ Lower(Strip(line)) \notin ExitWords
    /\ Strip(line) # <<>>
    /\ reads' = reads + 1
    /\ typed' = line
    /\ query' = Strip(line)
    /\ qpc' = "answering"
    /\ UNCHANGED <<invoked, answered, errors, printed, qend>>
    /\ UNCHANGED ivars

\* line 101: input() raises EOFError; line 122 takes it.
QReadEof ==
    /\ qpc = "ready"
    /\ reads < MaxReads
    /\ reads' = reads + 1
    /\ errors' = errors + 1
    /\ typed' = NoLine
    /\ QEnd("eof")
    /\ UNCHANGED <<query, invoked, answered, printed>>
    /\ UNCHANGED ivars

\* lines 110-118: the chain answers; the answer and its sources are printed.
QAnswerOk(docs) ==
    /\ qpc = "answering"
    /\ invoked' = invoked + 1
    /\ answered' = answered + 1
    /\ printed' = PrintSources(docs)
    /\ qpc' = "ready"
    /\ UNCHANGED <<typed, query, reads, errors, qend>>
    /\ UNCHANGED ivars

\* lines 110, 122-123: the chain raises. The except clause is outside the
\* while loop: the error is logged and main returns.
QAnswerRaise ==
    /\ qpc = "answering"
    /\ invoked' = invoked + 1
    /\ errors' = errors + 1
    /\ QEnd("query_error")
    /\ UNCHANGED <<typed, query, reads, answered, printed>>
    /\ UNCHANGED ivars

\* lines 120-121: KeyboardInterrupt, at the prompt or while answering
QInterrupt ==
    /\ qpc \in {"ready", "answering"}
    /\ QEnd("interrupt")
    /\ UNCHANGED <<typed, query, reads, invoked, answered, errors, printed>>
    /\ UNCHANGED ivars

\* The query session starts with or without a store on disk.
QInit ==
    /\ IngestInit
    /\ store \in {NoStore, [exists |-> TRUE, count |-> 1]}
    /\ QueryInit

QNext ==
    \/ \E why \in LoadFailures : QLoadFail(why)
    \/ QLoadOk
    \/ \E line \in Inputs : QReadExit(line)
    \/ \E line \in Inputs : QReadBlank(line)
    \/ \E line \in Inputs : QReadQuestion(line)
    \/ QReadEof
    \/ \E docs \in Retrievable : QAnswerOk(docs)
    \/ QAnswerRaise
    \/ QInterrupt

QSpec == QInit /\ [][QNext]_vars

\* ------------------------------------------------------------------ claims

\* The step that ends the scan and runs the rest of main.
Finishes == ScanDone /\ pc' = "idle"

\* The step in which the loop asks should_process_file about Head(todo).
Decides ==
    /\ pc = "scan"
    /\ todo # <<>>
    /\ EndsWith(Head(todo), MdSuffix)
    /\ pc' # pc \/ todo' # todo

\* C1: if the index update fails during a run, the ledger after the run is the
\* ledger before it: nothing pending is merged or persisted.
C1_LedgerKeptWhenIndexFails ==
    [][Finishes /\ last'.index = "failed" => ledgerFile' = ledgerFile]_vars

\* C2: when answering a question raises, the error is logged and the session
\* is Ready again, not Terminated.
C2_ErrorReturnsToReady ==
    [][qpc = "answering" /\ errors' = errors + 1 => qpc' = "ready"]_vars

\* C3 as stated: a run that starts and ends with no change of the file system
\* since the run before it began adds no chunk to the store.
C3_SecondRunAddsNothing ==
    [][Finishes /\ quiet = 2 => store'.count = store.count]_vars

\* A run that returned normally, with every load and the ledger's save
\* succeeding.
CleanRun(run) ==
    /\ run.outcome \in {"noop", "done"}
    /\ run.failed = {}
    /\ run.save # "failed"

\* C3 amended: when the first run returned normally with no load failure and
\* no failure to save the ledger, the second run, with no change of the file
\* system since the first began, adds no chunk to the store.
C3_SecondRunAddsNothingAfterCleanRun ==
    [][Finishes /\ quiet = 2 /\ CleanRun(last) => store'.count = store.count]_vars

\* C3's case: a second run found nothing to do after a first one that indexed
\* chunks and saved the ledger.
C3_Witness ==
    /\ pc = "idle"
    /\ quiet = 2
    /\ last.outcome = "noop"
    /\ store.count > 0
    /\ DOMAIN ledgerFile.map # {}

\* C4: an eligible file the ledger records with timestamp T is selected when
\* its timestamp now is greater than T and passed over when it is T; an
\* eligible file the ledger does not record is selected.
C4_MonotonicReprocessing ==
    [][Decides /\ fs[Head(todo)].exists /\ processed_files.kind = "map" =>
        LET p == Head(todo)
            ledger == processed_files.map
        IN  /\ p \notin DOMAIN ledger => pc' = "load" /\ p \in selected'
            /\ p \in DOMAIN ledger /\ fs[p].mtime > ledger[p] =>
                   pc' = "load" /\ p \in selected'
            /\ p \in DOMAIN ledger /\ fs[p].mtime = ledger[p] =>
                   pc' = "scan" /\ todo' = Tail(todo) /\ p \notin selected']_vars

\* C4's case: a file the ledger records was rewritten and is selected.
C4_Witness ==
    /\ pc = "load"
    /\ Head(todo) \in DOMAIN processed_files.map
    /\ processed_files.map[Head(todo)] < fs[Head(todo)].mtime

\* C5: between runs, a path has an entry in the ledger exactly when its
\* content was chunked and indexed with success since the ledger's reset.
\* (Stated of the runs that saved what they merged: a run whose save failed
\* leaves its entries unwritten by design.)
C5_EntryIffIngested ==
    pc = "idle" /\ last.save # "failed" => DOMAIN ledgerFile.map = ingested

\* C6: a ledger file that is absent or holds no path -> timestamp mapping
\* loads as the empty mapping, and the run does not die of it.
C6_MalformedLedgerLoadsEmpty ==
    /\ pc # "idle" /\ ledgerFile.kind # "map" => processed_files = Dict(EmptyMap)
    /\ last.outcome \notin {"crash_ledger", "crash_merge"}

\* C7: a loader failure is skipped: the scan goes on with the next file, the
\* file gets no pending update, and the next run over the same tree selects
\* it again.
C7_LoadFailureSkippedAndRetried ==
    [][/\ pc = "load" /\ failed' # failed =>
            /\ pc' = "scan"
            /\ todo' = Tail(todo)
            /\ new_docs' = new_docs
            /\ last' = last
       /\ failed' \cap DOMAIN files_to_update' = {}
       /\ ScanDone' /\ quiet' = 2 => last'.failed \subseteq selected']_vars

\* C7's case: in the run before, the loader failed on a.md and the scan went
\* on to load b.md; this run selects a.md again.
C7_Witness ==
    /\ pc # "idle"
    /\ quiet = 2
    /\ FileA \in last.failed
    /\ FileB \in last.pending
    /\ FileA \in selected

\* An eligible file the persisted ledger does not cover.
NeedsProcessing(p) ==
    /\ fs[p].exists
    /\ EndsWith(p, MdSuffix)
    /\ \/ p \notin DOMAIN ledgerFile.map
       \/ ledgerFile.map[p] < fs[p].mtime

\* C8: a failure to save the ledger is not raised and the run completes; the
\* next run over the same tree selects every file the run had processed, and
\* passes over no file that needs processing.
C8_SaveFailureOverProcesses ==
    [][/\ last'.save = "failed" => last'.outcome = "done"
       /\ ScanDone' /\ quiet' = 2 /\ last'.save = "failed" =>
            /\ last'.pending \subseteq selected'
            /\ \A p \in Paths : NeedsProcessing(p)' => p \in selected']_vars

\* C8's case: the run before processed files and failed to save; this run
\* has scanned the same tree.
C8_Witness ==
    /\ ScanDone
    /\ quiet = 2
    /\ last.save = "failed"
    /\ last.pending # {}
    /\ last.pending \subseteq selected

\* C9: when the embedding function cannot be built the run ends with the
\* store and the ledger as they were.
C9_EmbedFailureMutatesNothing ==
    [][Finishes /\ last'.outcome = "crash_embed" =>
          /\ store' = store
          /\ ledgerFile' = ledgerFile
          /\ ingested' = ingested]_vars

\* C9's case: a run died building the embedding function.
C9_Witness ==
    /\ pc = "idle"
    /\ last.outcome = "crash_embed"
    /\ ~store.exists

\* C10: the index update of an empty chunk list leaves the store as it is,
\* not opened and not created, and reports no failure.
C10_EmptyBatchNoOp ==
    [][/\ Finishes
       /\ new_docs # <<>>
       /\ split_documents(new_docs) = <<>>
       /\ last'.outcome # "crash_embed"
       => store' = store /\ last'.index = "empty"]_vars

\* C10's case: documents were loaded, none made a chunk, and there is still
\* no store.
C10_Witness ==
    /\ pc = "idle"
    /\ last.index = "empty"
    /\ last.pending # {}
    /\ ~store.exists

\* The step in which input() returns a line.
ReadsLine == qpc = "ready" /\ reads' = reads + 1 /\ typed' # NoLine

\* Lines that are exit or quit in some letter case, within whitespace.
ExitLines ==
    { <<"e", "x", "i", "t">>,
      <<" ", "E", "x", "i", "t", " ">>,
      <<"Q", "U", "I", "T">> }

\* Lines that are empty or whitespace only.
BlankLines == { <<>>, <<" ", "\t">> }

\* C11: in Ready, exit or quit in any letter case, trimmed, ends the session
\* with no retrieval or generation, and nothing is read after that.
C11_ExitTerminates ==
    [][/\ ReadsLine /\ typed' \in ExitLines =>
            qpc' = "terminated" /\ invoked' = invoked /\ answered' = answered
       /\ qpc = "terminated" =>
            qpc' = "terminated" /\ reads' = reads /\ invoked' = invoked]_vars

\* C11's case: " Exit " was typed and the session ended without a call of
\* the chain.
C11_Witness ==
    /\ qpc = "terminated"
    /\ qend = "exit"
    /\ typed = <<" ", "E", "x", "i", "t", " ">>
    /\ reads = 1
    /\ invoked = 0

\* C12: in Ready a blank line calls nothing and leaves the session Ready; any
\* other line that is not exit or quit is answered by exactly one call of
\* the chain.
C12_BlankIgnoredQuestionAnsweredOnce ==
    [][/\ ReadsLine /\ typed' \in BlankLines =>
            qpc' = "ready" /\ invoked' = invoked /\ answered' = answered
       /\ ReadsLine /\ typed' \in Inputs \ (BlankLines \cup ExitLines) =>
            qpc' = "answering" /\ invoked' = invoked
       /\ invoked' # invoked =>
            qpc = "answering" /\ invoked' = invoked + 1 /\ qpc' # "answering"
       /\ qpc = "answering" /\ qpc' # "answering" =>
            invoked' = invoked + 1 \/ qend' = "interrupt"]_vars

\* C12's case: a question was answered, then a blank line was read and the
\* session is Ready with still one call made.
C12_Witness ==
    /\ qpc = "ready"
    /\ typed = <<" ", "\t">>
    /\ reads = 2
    /\ invoked = 1
    /\ answered = 1

\* C13: a failure while Loading ends the service; Ready is never entered, no
\* line is read and no question answered.
C13_LoadFailureIsFatal ==
    qend \in LoadFailures =>
        /\ qpc = "terminated"
        /\ reads = 0
        /\ invoked = 0
        /\ answered = 0

\* C13's case: the store was there and the chain could not be created.
C13_Witness ==
    /\ qpc = "terminated"
    /\ qend = "chain"
    /\ store.exists

\* C14: the source list printed for an answer holds each source path once.
C14_SourcesPrintedOnce ==
    \A i, j \in 1..Len(printed) :
        i # j /\ printed[i] = printed[j] => printed[i] = UnknownSource

\* C15: when the timestamp of the file cannot be read, should_process_file
\* answers no and raises nothing, whatever the ledger is and whether or not it
\* holds the path; the file is passed over and the scan goes on.
C15_FailsClosed ==
    [][Decides /\ ~fs[Head(todo)].exists =>
          /\ pc' = "scan"
          /\ todo' = Tail(todo)
          /\ selected' = selected
          /\ new_docs' = new_docs
          /\ files_to_update' = files_to_update
          /\ processed_files' = processed_files]_vars

\* C15's case: a file the ledger records was deleted after it was listed; the
\* scan passed it over and has files left to look at.
C15_Witness ==
    /\ pc = "scan"
    /\ todo # <<>>
    /\ processed_files.kind = "map"
    /\ \E p \in gone : p \in DOMAIN processed_files.map /\ p \notin selected

\* C16: from its first step to its last the scan changes neither main's
\* ledger nor the ledger file; what it finds goes into files_to_update.
C16_ScanLeavesLedger ==
    [][pc # "idle" /\ pc' # "idle" =>
          processed_files' = processed_files /\ ledgerFile' = ledgerFile]_vars

\* C16's case: the scan is over; a stale file was loaded and has a pending
\* timestamp newer than the ledger's, another file failed to load, and the
\* ledger is what was read from the file.
C16_Witness ==
    /\ ScanDone
    /\ processed_files.kind = "map"
    /\ FileA \in DOMAIN files_to_update
    /\ FileA \in DOMAIN processed_files.map
    /\ processed_files.map[FileA] < files_to_update[FileA]
    /\ failed = {FileB}
    /\ processed_files = load_processed_files(ledgerFile)

\* C17: what the scan returns agrees: every document comes from a file with a
\* pending entry, and no file with a pending entry failed to load.
C17_ScanOutputsAgree ==
    ScanDone =>
        /\ Sources(new_docs) \subseteq DOMAIN files_to_update
        /\ DOMAIN files_to_update \cap failed = {}

\* The run that ends in this step had no failing step.
NothingFailed ==
    /\ failed = {}
    /\ last'.outcome \in {"noop", "done"}
    /\ last'.index # "failed"
    /\ last'.save # "failed"

\* C18 as stated: when no step of a run failed, every file with a pending
\* entry is in the ledger file at the end of the run.
C18_PendingPersisted ==
    [][Finishes /\ NothingFailed =>
          DOMAIN files_to_update \subseteq DOMAIN ledgerFile'.map]_vars

\* C18 amended: when no step of a run failed and the scan returned at least
\* one document, every file with a pending entry is in the ledger file at the
\* end of the run with its pending timestamp, and the next run, with nothing
\* changed since, does not select it; this covers a file the loader made no
\* document of when another file gave one.
C18_PendingPersistedWhenDocumentsLoaded ==
    [][/\ Finishes /\ NothingFailed /\ new_docs # <<>> =>
            \A p \in DOMAIN files_to_update :
                /\ p \in DOMAIN ledgerFile'.map
                /\ ledgerFile'.map[p] = files_to_update[p]
       /\ Decides /\ quiet = 2 /\ last.outcome = "done" /\ last.save = "ok"
            /\ Head(todo) \in last.pending =>
            pc' = "scan" /\ Head(todo) \notin selected']_vars

\* C18's case: the run before recorded a.md, of which the loader makes no
\* document; the scan of the next run is over and selected nothing.
C18_Witness ==
    /\ ScanDone
    /\ quiet = 2
    /\ last.outcome = "done"
    /\ last.save = "ok"
    /\ FileA \in last.pending
    /\ fs[FileA].exists
    /\ fs[FileA].content.docs = 0
    /\ FileA \in DOMAIN ledgerFile.map
    /\ selected = {}

\* C19: the timestamp the ledger file holds for a file at the end of a run is
\* not newer than the content of the file that the run loaded for indexing.
C19_LedgerNotNewerThanIndexed ==
    [][Finishes =>
          \A i \in 1..Len(new_docs) :
              new_docs[i].source \in DOMAIN ledgerFile'.map =>
                  ledgerFile'.map[new_docs[i].source] <= new_docs[i].ver]_vars

\* C20: in a run during which nothing outside changed, every pending
\* timestamp for a path the ledger holds is greater than the recorded one, and
\* the ledger saved at the end keeps every entry it had, deleted files
\* included, with a timestamp that is not lower.
C20_MergeKeepsAndRaises ==
    [][/\ pc # "idle" /\ quiet >= 1 /\ processed_files.kind = "map" =>
            \A p \in DOMAIN files_to_update' \cap DOMAIN processed_files.map :
                files_to_update'[p] > processed_files.map[p]
       /\ Finishes /\ quiet >= 1 /\ last'.outcome = "done" /\ last'.save = "ok" =>
            \A p \in DOMAIN processed_files.map :
                /\ p \in DOMAIN ledgerFile'.map
                /\ ledgerFile'.map[p] >= processed_files.map[p]]_vars

\* C20's case: a run recorded b.md and saved the ledger; the entry of a file
\* deleted before the run began is still there.
C20_Witness ==
    /\ pc = "idle"
    /\ quiet >= 1
    /\ last.outcome = "done"
    /\ last.save = "ok"
    /\ FileB \in last.pending
    /\ FileA \in DOMAIN ledgerFile.map
    /\ FileB \in DOMAIN ledgerFile.map
    /\ ~fs[FileA].exists

====
